---------------------------- MODULE Spec2Model ----------------------------
(***************************************************************************)
(* Startup of the Synapse home server (synapse/app/homeserver.py):         *)
(*   - SynapseHomeServer.create_resource_tree, the loop that turns a list  *)
(*     of (full_path, resource) mounts into a tree of twisted Resources;   *)
(*   - SynapseHomeServer.build_db_pool, the schema gate on the sqlite      *)
(*     store (PRAGMA user_version, the SCHEMAS scripts, the pool);         *)
(*   - setup(), the order in which the process calls them.                 *)
(*                                                                         *)
(* A Resource is modelled by its identity (a pair <<kind, number>>) and    *)
(* its children dict; Resource.putChild(name, child) sets children[name]   *)
(* and Resource.listNames() enumerates the keys of children.               *)
(***************************************************************************)
EXTENDS Integers, Sequences, FiniteSets, TLC

(***************************************************************************)
(* Bounds of the model.                                                    *)
(***************************************************************************)
MaxDepth == 3
MaxMounts == 3

(***************************************************************************)
(* Resources.  Distinct live objects print differently under "%s", so the  *)
(* identity of a resource stands for its str(); every dummy resource gets  *)
(* an identity of its own.                                                 *)
(***************************************************************************)
root_resource == <<"root", 0>>
Handler(i) == <<"handler", i>>
Dummy(k) == <<"dummy", k>>
Absent == <<"absent", 0>>

IsHandler(n) == n[1] = "handler"
IsDummy(n) == n[1] = "dummy"

\* an empty dict
EmptyDict == [k \in {} |-> Absent]

\* d[key] = value
DictSet(d, key, value) ==
    [k \in (DOMAIN d) \cup {key} |-> IF k = key THEN value ELSE d[k]]

\* "%s-%s" % (resource, path_seg): the parent's str() and the segment
_resource_id(resource, path_seg) == <<resource, path_seg>>

\* resource.listNames(): the keys of the resource's children dict
listNames(children, resource) ==
    {k[2] : k \in {kk \in DOMAIN children : kk[1] = resource}}

\* resource.putChild(path_seg, child)
putChild(children, resource, path_seg, child) ==
    DictSet(children, <<resource, path_seg>>, child)

\* full_path.split('/') of "/s1/s2/.../sn", a path held as <<s1, ..., sn>>
split(full_path) == <<"">> \o full_path

(***************************************************************************)
(* The interior walk of one mount: the for loop over                       *)
(* full_path.split('/')[1:-1].  st is the state of the build               *)
(* [children, resource_mappings, dummies, raised]; the result adds the     *)
(* resource the walk ended on.                                             *)
(***************************************************************************)
RECURSIVE Walk(_, _, _)
Walk(st, last_resource, segs) ==
    IF segs = <<>>
    THEN [st |-> st, last_resource |-> last_resource]
    ELSE LET path_seg == Head(segs)
             res_id == _resource_id(last_resource, path_seg)
         IN  IF path_seg \notin listNames(st.children, last_resource)
             THEN \* resource doesn't exist, so make a "dummy resource"
                  LET child_resource == Dummy(st.dummies + 1)
                      st2 == [st EXCEPT
                                !.children = putChild(@, last_resource,
                                                      path_seg, child_resource),
                                !.resource_mappings =
                                    DictSet(@, res_id, child_resource),
                                !.dummies = @ + 1]
                  IN  Walk(st2, child_resource, Tail(segs))
             ELSE \* we have an existing Resource, use that instead
                  IF res_id \in DOMAIN st.resource_mappings
                  THEN Walk(st, st.resource_mappings[res_id], Tail(segs))
                  ELSE \* resource_mappings[res_id]: KeyError
                       [st |-> [st EXCEPT !.raised = TRUE],
                        last_resource |-> last_resource]

(***************************************************************************)
(* "thieve its children": resource.putChild(child_name,                    *)
(* resource_mappings[child_res_id]) for the names of the existing          *)
(* resource that resource_mappings knows.  (When a name is unknown the     *)
(* loop raises; how many children were stolen before that depends on the   *)
(* order of listNames(), and the resource holding them is not attached.)   *)
(***************************************************************************)
StealChildren(st, existing, names, resource) ==
    [k \in (DOMAIN st.children) \cup {<<resource, n>> : n \in names} |->
        IF k[1] = resource /\ k[2] \in names
        THEN st.resource_mappings[_resource_id(existing, k[2])]
        ELSE st.children[k]]

(***************************************************************************)
(* Attaching the desired resource under the last segment.                  *)
(***************************************************************************)
Attach(st, last_resource, last_path_seg, resource) ==
    LET res_id == _resource_id(last_resource, last_path_seg)
        found == res_id \in DOMAIN st.resource_mappings
        existing_dummy_resource ==
            IF found THEN st.resource_mappings[res_id] ELSE Absent
        names == IF found
                 THEN listNames(st.children, existing_dummy_resource)
                 ELSE {}
        known == {n \in names :
                    _resource_id(existing_dummy_resource, n)
                        \in DOMAIN st.resource_mappings}
        stolen == StealChildren(st, existing_dummy_resource, known, resource)
    IN  IF known # names
        THEN \* resource_mappings[child_res_id]: KeyError
             [st EXCEPT !.children = stolen, !.raised = TRUE]
        ELSE \* finally, insert the desired resource in the right place
             [st EXCEPT
                !.children = putChild(stolen, last_resource,
                                      last_path_seg, resource),
                !.resource_mappings = DictSet(@, res_id, resource)]

(***************************************************************************)
(* One iteration of "for (full_path, resource) in desired_tree".           *)
(***************************************************************************)
MountOne(st, mount) ==
    LET parts == split(mount.full_path)
        w == Walk(st, root_resource, SubSeq(parts, 2, Len(parts) - 1))
    IN  IF w.st.raised
        THEN w.st
        ELSE Attach(w.st, w.last_resource, parts[Len(parts)], mount.resource)

\* the state of the build before the loop: resource_mappings = {}
EmptyBuild ==
    [children |-> EmptyDict, resource_mappings |-> EmptyDict,
     dummies |-> 0, raised |-> FALSE]

\* the whole loop, stopped by the first exception
RECURSIVE MountAll(_, _)
MountAll(st, mounts) ==
    IF mounts = <<>> \/ st.raised
    THEN st
    ELSE MountAll(MountOne(st, Head(mounts)), Tail(mounts))

(***************************************************************************)
(* The schema gate.                                                        *)
(***************************************************************************)
SCHEMAS ==
    <<"transactions", "pdu", "users", "profiles", "presence", "im",
      "room_aliases">>

SCHEMA_VERSION == 1

\* bounds of the store and of the number of process starts
MaxVersion == 2
MaxRuns == 3

\* the runs in which a script may fail, when failures are to stop
MaxFailures == 2

\* PRAGMA user_version holds a signed integer; sqlite reports 0 for a store
\* that was never stamped
StoredVersions == (0 - MaxVersion)..MaxVersion

\* the row tested against the expected version instead of for truth
HasVersion_above(row) == row # <<>> /\ row[1] > SCHEMA_VERSION

\* "if row and row[0]": fetchone() gave a row and its version is not 0
HasVersion(row) == row # <<>> /\ row[1] # 0

\* the gate with <= for <
IsStale_inclusive(user_ver) == user_ver <= SCHEMA_VERSION

\* the comparison of the gate turned around
IsStale_reversed(user_ver) == user_ver > SCHEMA_VERSION

\* "if user_version < SCHEMA_VERSION"
IsStale(user_ver) == user_ver < SCHEMA_VERSION

\* the list walked from its end
NextScript_reversed(done) == SCHEMAS[Len(SCHEMAS) - done]

\* the sql_loc of the loop's next iteration, after done iterations
NextScript(done) == SCHEMAS[done + 1]

(***************************************************************************)
(* The ConnectionPool of build_db_pool: cp_min=1, cp_max=1.                *)
(***************************************************************************)
cp_min == 1

\* a pool allowed one thread more than cp_min
cp_max_more == cp_min + 1

cp_max == 1

\* bound on the operations callers issue to the pool
MaxOps == 3

(***************************************************************************)
(* The mount points of setup()'s tree (synapse.api.urls).                  *)
(***************************************************************************)
CLIENT_PREFIX == <<"matrix", "client", "api", "v1">>
FEDERATION_PREFIX == <<"matrix", "federation", "v1">>
WEB_CLIENT_PREFIX == <<"matrix", "client">>
CONTENT_REPO_PREFIX == <<"matrix", "content">>

\* desired_tree as create_resource_tree lists it
DesiredTree(web_client) ==
    <<[full_path |-> CLIENT_PREFIX, resource |-> Handler(1)],
      [full_path |-> FEDERATION_PREFIX, resource |-> Handler(2)],
      [full_path |-> CONTENT_REPO_PREFIX, resource |-> Handler(3)]>>
    \o (IF web_client
        THEN <<[full_path |-> WEB_CLIENT_PREFIX, resource |-> Handler(4)]>>
        ELSE <<>>)

VARIABLES
    \* ---- the process: setup()
    pc,                 \* the statement of setup() the process is at
    config,             \* [webclient, manhole, daemonize]
    run,                \* how many times the process has been started
    listening,          \* reactor.listenSSL has been called
    manhole_listening,  \* reactor.listenTCP has been called for the manhole
    \* ---- create_resource_tree
    desired_tree,       \* the list of (full_path, resource) being mounted
    mounted,            \* how many of its entries the loop has processed
    children,           \* the children dict of every resource
    resource_mappings,  \* _resource_id(parent, seg) -> child
    dummies,            \* how many dummy resources have been created
    tpc,                \* "idle", "loop", "returned", "raised"
    \* ---- the store (it outlives the process)
    user_version,       \* PRAGMA user_version
    db_objects,         \* the scripts whose objects the store holds
    \* ---- build_db_pool
    dbpc,               \* "idle", "connect", "check", "scripts", "close",
                        \* "pool", "returned", "raised"
    row,                \* c.fetchone()
    scripts_done,       \* iterations of "for sql_loc in SCHEMAS" completed
    db_pool,            \* the ConnectionPool has been constructed
    \* ---- what this process has done so far (observation only)
    executed,           \* the sql_loc handed to c.executescript, in order
    version_writes,     \* how often PRAGMA user_version = ... was executed
    failed_at,          \* the iteration whose script failed, 0 if none
    start_version,      \* user_version when the process started
    start_objects,      \* db_objects when the process started
    stamped_run,        \* the run that stamped the version, 0 if none
    \* ---- the ConnectionPool, once the reactor runs
    pool_workers,       \* worker thread -> -1 not started, 0 idle, or the
                        \* operation it is running
    pool_conns,         \* the worker threads that hold an open connection
    pool_queue,         \* the operations waiting for a worker, oldest first
    ops_issued          \* how many operations callers have issued

setup_vars == <<pc, config, run, listening, manhole_listening>>
tree_vars ==
    <<desired_tree, mounted, children, resource_mappings, dummies, tpc>>
store_vars == <<user_version, db_objects>>
db_vars == <<dbpc, row, scripts_done, db_pool>>
obs_vars ==
    <<executed, version_writes, failed_at, start_version, start_objects,
      stamped_run>>

pool_vars == <<pool_workers, pool_conns, pool_queue, ops_issued>>

vars == <<setup_vars, tree_vars, store_vars, db_vars, obs_vars, pool_vars>>

\* the paths mounted: at every depth up to MaxDepth the path /a/.../a and
\* its sibling /a/.../b
Paths ==
    {[i \in 1..n |-> "a"] : n \in 1..MaxDepth}
    \cup {[i \in 1..n |-> IF i = n THEN "b" ELSE "a"] : n \in 1..MaxDepth}

\* lists of mounts, the i-th with its own handler object
MountLists ==
    UNION {{[i \in 1..n |-> [full_path |-> ps[i], resource |-> Handler(i)]]
              : ps \in [1..n -> Paths]} : n \in 0..MaxMounts}

Configs == [webclient : BOOLEAN, manhole : BOOLEAN, daemonize : BOOLEAN]

BuildState ==
    [children |-> children, resource_mappings |-> resource_mappings,
     dummies |-> dummies, raised |-> tpc = "raised"]

(***************************************************************************)
(* setup()                                                                 *)
(***************************************************************************)
\* config = HomeServerConfig.load_config(...) ... hs = SynapseHomeServer(...)
LoadConfig ==
    /\ pc = "load_config"
    /\ pc' = "register_servlets"
    /\ UNCHANGED <<pool_vars,
                   config, run, listening, manhole_listening, tree_vars,
                   store_vars, db_vars, obs_vars>>

\* hs.register_servlets()
RegisterServlets ==
    /\ pc = "register_servlets"
    /\ pc' = "create_resource_tree"
    /\ UNCHANGED <<pool_vars,
                   config, run, listening, manhole_listening, tree_vars,
                   store_vars, db_vars, obs_vars>>

\* hs.create_resource_tree(web_client=config.webclient, ...), up to
\* "resource_mappings = {}"
CreateResourceTree ==
    /\ pc = "create_resource_tree"
    /\ tpc = "idle"
    /\ desired_tree' = DesiredTree(config.webclient)
    /\ mounted' = 0
    /\ children' = EmptyDict
    /\ resource_mappings' = EmptyDict
    /\ dummies' = 0
    /\ tpc' = "loop"
    /\ UNCHANGED <<pool_vars,
                   setup_vars, store_vars, db_vars, obs_vars>>

\* the body of the loop on the next entry of desired_tree; an exception
\* leaves setup() and ends the process
MountNext ==
    /\ tpc = "loop"
    /\ mounted < Len(desired_tree)
    /\ LET st == MountOne(BuildState, desired_tree[mounted + 1])
       IN  /\ children' = st.children
           /\ resource_mappings' = st.resource_mappings
           /\ dummies' = st.dummies
           /\ tpc' = IF st.raised THEN "raised" ELSE "loop"
           /\ mounted' = IF st.raised THEN mounted ELSE mounted + 1
           /\ pc' = IF st.raised THEN "aborted" ELSE pc
    /\ UNCHANGED <<pool_vars,
                   desired_tree, config, run, listening, manhole_listening,
                   store_vars, db_vars, obs_vars>>

\* the return statement indented into the loop: the tree is returned after
\* the first mount
TreeReturn_inloop ==
    /\ tpc = "loop"
    /\ (mounted >= 1 \/ mounted = Len(desired_tree))
    /\ tpc' = "returned"
    /\ pc' = "start_listening"
    /\ UNCHANGED <<pool_vars,
                   desired_tree, mounted, children, resource_mappings,
                   dummies, config, run, listening, manhole_listening,
                   store_vars, db_vars, obs_vars>>

\* return self.root_resource
TreeReturn ==
    /\ tpc = "loop"
    /\ mounted = Len(desired_tree)
    /\ tpc' = "returned"
    /\ pc' = "start_listening"
    /\ UNCHANGED <<pool_vars,
                   desired_tree, mounted, children, resource_mappings,
                   dummies, config, run, listening, manhole_listening,
                   store_vars, db_vars, obs_vars>>

\* hs.start_listening(config.bind_port): reactor.listenSSL(...)
StartListening ==
    /\ pc = "start_listening"
    /\ listening' = TRUE
    /\ pc' = "get_db_pool"
    /\ UNCHANGED <<pool_vars,
                   config, run, manhole_listening, tree_vars, store_vars,
                   db_vars, obs_vars>>

\* hs.get_db_pool(): the call of build_db_pool
GetDbPool ==
    /\ pc = "get_db_pool"
    /\ dbpc = "idle"
    /\ dbpc' = "connect"
    /\ UNCHANGED <<pool_vars,
                   setup_vars, tree_vars, store_vars, row, scripts_done,
                   db_pool, obs_vars>>

(***************************************************************************)
(* build_db_pool                                                           *)
(***************************************************************************)
\* sqlite3.connect; c.execute("PRAGMA user_version"); row = c.fetchone()
DbReadVersion ==
    /\ dbpc = "connect"
    /\ row' = <<user_version>>
    /\ dbpc' = "check"
    /\ UNCHANGED <<pool_vars,
                   setup_vars, tree_vars, store_vars, scripts_done, db_pool,
                   obs_vars>>

\* if row and row[0]: ... raise ValueError / else: the scripts
DbCheck ==
    /\ dbpc = "check"
    /\ IF HasVersion(row)
       THEN IF IsStale(row[1])
            THEN dbpc' = "raised" /\ pc' = "aborted"
            ELSE dbpc' = "close" /\ pc' = pc
       ELSE dbpc' = "scripts" /\ pc' = pc
    /\ scripts_done' = 0
    /\ UNCHANGED <<pool_vars,
                   config, run, listening, manhole_listening, tree_vars,
                   store_vars, row, db_pool, obs_vars>>

\* one iteration of the loop: read_schema, c.executescript, db_conn.commit
DbRunScript ==
    /\ dbpc = "scripts"
    /\ scripts_done < Len(SCHEMAS)
    /\ executed' = Append(executed, NextScript(scripts_done))
    /\ db_objects' = db_objects \cup {NextScript(scripts_done)}
    /\ scripts_done' = scripts_done + 1
    /\ UNCHANGED <<pool_vars,
                   setup_vars, tree_vars, user_version, dbpc, row, db_pool,
                   version_writes, failed_at, start_version, start_objects,
                   stamped_run>>

\* a failing iteration whose exception is swallowed: the loop goes on
DbScriptFails_swallowed ==
    /\ dbpc = "scripts"
    /\ scripts_done < Len(SCHEMAS)
    /\ failed_at' = scripts_done + 1
    /\ scripts_done' = scripts_done + 1
    /\ UNCHANGED <<pool_vars,
                   setup_vars, tree_vars, store_vars, dbpc, row, db_pool,
                   executed, version_writes, start_version, start_objects,
                   stamped_run>>

\* an iteration that raises: in read_schema (the script is not run) or in
\* c.executescript (the script may have created some of its objects); the
\* exception leaves build_db_pool and setup()
DbScriptFails ==
    /\ dbpc = "scripts"
    /\ scripts_done < Len(SCHEMAS)
    /\ \E stage \in {"read_schema", "executescript"}, partly \in BOOLEAN :
          /\ executed' = IF stage = "executescript"
                         THEN Append(executed, NextScript(scripts_done))
                         ELSE executed
          /\ db_objects' = IF stage = "executescript" /\ partly
                           THEN db_objects \cup {NextScript(scripts_done)}
                           ELSE db_objects
    /\ failed_at' = scripts_done + 1
    /\ dbpc' = "raised"
    /\ pc' = "aborted"
    /\ UNCHANGED <<pool_vars,
                   config, run, listening, manhole_listening, tree_vars,
                   user_version, row, scripts_done, db_pool, version_writes,
                   start_version, start_objects, stamped_run>>

\* the pragma written on entering the loop instead of after it
DbStamp_first ==
    /\ dbpc = "scripts"
    /\ (version_writes = 0 \/ scripts_done = Len(SCHEMAS))
    /\ user_version' = SCHEMA_VERSION
    /\ version_writes' = 1
    /\ stamped_run' = run
    /\ dbpc' = IF scripts_done = Len(SCHEMAS) THEN "close" ELSE "scripts"
    /\ UNCHANGED <<pool_vars,
                   setup_vars, tree_vars, db_objects, row, scripts_done,
                   db_pool, executed, failed_at, start_version,
                   start_objects>>

\* c.execute("PRAGMA user_version = %d" % SCHEMA_VERSION), after the loop
DbStamp ==
    /\ dbpc = "scripts"
    /\ scripts_done = Len(SCHEMAS)
    /\ user_version' = SCHEMA_VERSION
    /\ version_writes' = version_writes + 1
    /\ stamped_run' = run
    /\ dbpc' = "close"
    /\ UNCHANGED <<pool_vars,
                   setup_vars, tree_vars, db_objects, row, scripts_done,
                   db_pool, executed, failed_at, start_version,
                   start_objects>>

\* c.close() and the end of the with block
DbClose ==
    /\ dbpc = "close"
    /\ dbpc' = "pool"
    /\ UNCHANGED <<pool_vars,
                   setup_vars, tree_vars, store_vars, row, scripts_done,
                   db_pool, obs_vars>>

\* pool = adbapi.ConnectionPool(...); return pool
DbPool ==
    /\ dbpc = "pool"
    /\ db_pool' = TRUE
    /\ dbpc' = "returned"
    /\ pc' = "manhole"
    /\ UNCHANGED <<pool_vars,
                   config, run, listening, manhole_listening, tree_vars,
                   store_vars, row, scripts_done, obs_vars>>

(***************************************************************************)
(* the rest of setup()                                                     *)
(***************************************************************************)
\* if config.manhole: ... reactor.listenTCP(config.manhole, f, ...)
Manhole ==
    /\ pc = "manhole"
    /\ manhole_listening' = config.manhole
    /\ pc' = "daemonize"
    /\ UNCHANGED <<pool_vars,
                   config, run, listening, tree_vars, store_vars, db_vars,
                   obs_vars>>

\* daemon.start() or run(): reactor.run(), which starts the pool's cp_min
\* worker threads
Run ==
    /\ pc = "daemonize"
    /\ pc' = "running"
    /\ pool_workers' = [w \in 1..cp_max |-> IF w <= cp_min THEN 0 ELSE 0 - 1]
    /\ UNCHANGED <<config, run, listening, manhole_listening, tree_vars,
                   store_vars, db_vars, obs_vars, pool_conns, pool_queue,
                   ops_issued>>

\* the process has ended (by an exception, or stopped while serving) and is
\* started again on the same store, run "if __name__ == '__main__': setup()"
Restart ==
    /\ pc \in {"aborted", "running"}
    /\ run < MaxRuns
    /\ run' = run + 1
    /\ pc' = "load_config"
    /\ listening' = FALSE
    /\ manhole_listening' = FALSE
    /\ desired_tree' = <<>>
    /\ mounted' = 0
    /\ children' = EmptyDict
    /\ resource_mappings' = EmptyDict
    /\ dummies' = 0
    /\ tpc' = "idle"
    /\ dbpc' = "idle"
    /\ row' = <<>>
    /\ scripts_done' = 0
    /\ db_pool' = FALSE
    /\ executed' = <<>>
    /\ version_writes' = 0
    /\ failed_at' = 0
    /\ start_version' = user_version
    /\ start_objects' = db_objects
    /\ pool_workers' = [w \in 1..cp_max |-> 0 - 1]
    /\ pool_conns' = {}
    /\ pool_queue' = <<>>
    /\ ops_issued' = 0
    /\ UNCHANGED <<config, store_vars, stamped_run>>

(***************************************************************************)
(* The ConnectionPool at work (twisted.enterprise.adbapi): operations are  *)
(* queued for a pool of at most cp_max worker threads, and a worker opens  *)
(* its own connection the first time it runs an operation.                 *)
(***************************************************************************)

Unstarted == 0 - 1
Idle == {w \in 1..cp_max : pool_workers[w] = 0}
Busy == {w \in 1..cp_max : pool_workers[w] > 0}

\* a caller issues an operation (runInteraction, runQuery, ...): it joins the
\* queue, and a thread is started for it if none is idle and fewer than
\* cp_max exist
PoolSubmit ==
    /\ pc = "running"
    /\ db_pool
    /\ ops_issued < MaxOps
    /\ ops_issued' = ops_issued + 1
    /\ pool_queue' = Append(pool_queue, ops_issued + 1)
    /\ pool_workers' =
          IF Idle = {} /\ \E w \in 1..cp_max : pool_workers[w] = Unstarted
          THEN [pool_workers EXCEPT
                  ![CHOOSE w \in 1..cp_max : pool_workers[w] = Unstarted] = 0]
          ELSE pool_workers
    /\ UNCHANGED <<setup_vars, tree_vars, store_vars, db_vars, obs_vars,
                   pool_conns>>

\* an idle thread takes the oldest waiting operation and runs it on its own
\* connection, which it opens if it has none
PoolTake ==
    /\ pc = "running"
    /\ pool_queue # <<>>
    /\ \E w \in Idle :
          /\ pool_workers' = [pool_workers EXCEPT ![w] = Head(pool_queue)]
          /\ pool_conns' = pool_conns \cup {w}
    /\ pool_queue' = Tail(pool_queue)
    /\ UNCHANGED <<setup_vars, tree_vars, store_vars, db_vars, obs_vars,
                   ops_issued>>

\* the operation a thread runs ends; the thread keeps its connection
PoolFinish ==
    /\ pc = "running"
    /\ \E w \in Busy : pool_workers' = [pool_workers EXCEPT ![w] = 0]
    /\ UNCHANGED <<setup_vars, tree_vars, store_vars, db_vars, obs_vars,
                   pool_conns, pool_queue, ops_issued>>

\* a process about to run setup() on some store
ProcessStart ==
    /\ run = 1
    /\ listening = FALSE
    /\ manhole_listening = FALSE
    /\ dbpc = "idle"
    /\ row = <<>>
    /\ scripts_done = 0
    /\ db_pool = FALSE
    /\ executed = <<>>
    /\ version_writes = 0
    /\ failed_at = 0
    /\ start_version = user_version
    /\ start_objects = db_objects
    /\ stamped_run = 0
    /\ pool_workers = [w \in 1..cp_max |-> 0 - 1]
    /\ pool_conns = {}
    /\ pool_queue = <<>>
    /\ ops_issued = 0

Init ==
    /\ pc = "load_config"
    /\ config \in Configs
    /\ user_version \in StoredVersions
    /\ db_objects = IF user_version = 0
                    THEN {}
                    ELSE {SCHEMAS[i] : i \in 1..Len(SCHEMAS)}
    /\ desired_tree = <<>>
    /\ mounted = 0
    /\ children = EmptyDict
    /\ resource_mappings = EmptyDict
    /\ dummies = 0
    /\ tpc = "idle"
    /\ ProcessStart

Next ==
    \/ LoadConfig
    \/ RegisterServlets
    \/ CreateResourceTree
    \/ MountNext
    \/ TreeReturn
    \/ StartListening
    \/ GetDbPool
    \/ DbReadVersion
    \/ DbCheck
    \/ DbRunScript
    \/ DbScriptFails
    \/ DbStamp
    \/ DbClose
    \/ DbPool
    \/ Manhole
    \/ Run
    \/ PoolSubmit
    \/ PoolTake
    \/ PoolFinish
    \/ Restart

Spec == Init /\ [][Next]_vars

(***************************************************************************)
(* The process restarted until it comes up, with script failures that stop *)
(* after the first MaxFailures runs.  A step of setup() or build_db_pool   *)
(* that can be taken is taken (the code runs sequentially), and a process  *)
(* that has ended is started again.                                        *)
(***************************************************************************)
DbScriptFailsEarly == run <= MaxFailures /\ DbScriptFails

NextRetry ==
    \/ LoadConfig
    \/ RegisterServlets
    \/ CreateResourceTree
    \/ MountNext
    \/ TreeReturn
    \/ StartListening
    \/ GetDbPool
    \/ DbReadVersion
    \/ DbCheck
    \/ DbRunScript
    \/ DbScriptFailsEarly
    \/ DbStamp
    \/ DbClose
    \/ DbPool
    \/ Manhole
    \/ Run
    \/ PoolSubmit
    \/ PoolTake
    \/ PoolFinish
    \/ Restart

SpecRetry == Init /\ [][NextRetry]_vars /\ WF_vars(NextRetry)

(***************************************************************************)
(* create_resource_tree on its own, called with any list of mounts.        *)
(***************************************************************************)
InitTree ==
    /\ pc = "create_resource_tree"
    /\ config = [webclient |-> FALSE, manhole |-> FALSE, daemonize |-> FALSE]
    /\ user_version = 0
    /\ db_objects = {}
    /\ desired_tree \in MountLists
    /\ mounted = 0
    /\ children = EmptyDict
    /\ resource_mappings = EmptyDict
    /\ dummies = 0
    /\ tpc = "loop"
    /\ ProcessStart

NextTree == MountNext \/ TreeReturn

SpecTree == InitTree /\ [][NextTree]_vars

\* the child the tree serves at a path, walking the children dicts
RECURSIVE ChildAt(_, _, _)
ChildAt(ch, node, segs) ==
    IF segs = <<>> THEN node
    ELSE IF <<node, Head(segs)>> \in DOMAIN ch
         THEN ChildAt(ch, ch[<<node, Head(segs)>>], Tail(segs))
         ELSE Absent

Resolve(ch, full_path) == ChildAt(ch, root_resource, full_path)

(***************************************************************************)
(* Properties of the mount loop (checked under SpecTree).                  *)
(***************************************************************************)
DistinctPaths(mounts) ==
    \A i, j \in 1..Len(mounts) :
        i # j => mounts[i].full_path # mounts[j].full_path

Orderings(n) ==
    {p \in [1..n -> 1..n] : \A i, j \in 1..n : p[i] = p[j] => i = j}

Permuted(mounts, p) == [i \in 1..Len(mounts) |-> mounts[p[i]]]

\* what a path shows: the handler there, some placeholder, or nothing
Shown(n) == IF IsDummy(n) THEN Dummy(0) ELSE n

SameTree(chA, chB) ==
    \A q \in Paths : Shown(Resolve(chA, q)) = Shown(Resolve(chB, q))

LoopOver == tpc \in {"returned", "raised"}

\* q is p followed by at least one more segment
StrictExtension(q, p) ==
    Len(q) > Len(p) /\ SubSeq(q, 1, Len(p)) = p

\* the mount the loop is about to process
NextMount == desired_tree[mounted + 1]
AtMount == tpc = "loop" /\ mounted < Len(desired_tree)

\* C1: for a list of mounts with pairwise distinct paths, the build
\* completes, and so does the build of every permutation of the list, with
\* the same handler (or a placeholder, or nothing) at every path.
C1_OrderIndependent ==
    (LoopOver /\ DistinctPaths(desired_tree)) =>
        /\ tpc = "returned"
        /\ \A p \in Orderings(Len(desired_tree)) :
              LET r == MountAll(EmptyBuild, Permuted(desired_tree, p))
              IN  ~r.raised /\ SameTree(children, r.children)

\* C2: once the loop has processed the list, every mount's path (the last
\* mount listed for a path) resolves from the root to that mount's handler,
\* and every mount strictly below it is reached from that handler by the
\* remaining segments.
C2_PathResolution ==
    tpc = "returned" =>
        \A i \in 1..Len(desired_tree) :
            LET m == desired_tree[i]
            IN  (\A j \in (i + 1)..Len(desired_tree) :
                     desired_tree[j].full_path # m.full_path)
                => /\ Resolve(children, m.full_path) = m.resource
                   /\ \A j \in 1..Len(desired_tree) :
                        LET q == desired_tree[j].full_path
                        IN  StrictExtension(q, m.full_path) =>
                              ChildAt(children, m.resource,
                                      SubSeq(q, Len(m.full_path) + 1, Len(q)))
                                = Resolve(children, q)
                              /\ Resolve(children, q) # Absent

\* C3: a mount whose full path an earlier mount already took replaces the
\* earlier handler: the step does not raise, the path resolves to the later
\* handler, and every child the earlier handler had is a child of the later
\* handler under the same name.
C3_CollisionReplaces ==
    [][LET path == NextMount.full_path
           old == Resolve(children, path)
       IN  (/\ AtMount
            /\ IsHandler(old)
            /\ \E j \in 1..mounted : desired_tree[j].full_path = path)
           => /\ tpc' = "loop"
              /\ Resolve(children', path) = NextMount.resource
              /\ \A s \in listNames(children, old) :
                    /\ <<NextMount.resource, s>> \in DOMAIN children'
                    /\ children'[<<NextMount.resource, s>>]
                         = children[<<old, s>>]]_vars

\* C4: the mount loop never raises, whatever the list of mounts
C4_NeverRaises == tpc # "raised"

\* C5: a mount at a path where the tree holds a placeholder (a deeper mount
\* came first) takes the placeholder's place: the step does not raise, the
\* path resolves to the mount's handler, and every child of the placeholder
\* is a child of the handler under the same name.
C5_PlaceholderTransplant ==
    [][LET path == NextMount.full_path
           old == Resolve(children, path)
       IN  (AtMount /\ IsDummy(old))
           => /\ tpc' = "loop"
              /\ Resolve(children', path) = NextMount.resource
              /\ \A s \in listNames(children, old) :
                    /\ <<NextMount.resource, s>> \in DOMAIN children'
                    /\ children'[<<NextMount.resource, s>>]
                         = children[<<old, s>>]]_vars
(***************************************************************************)
(* Properties of build_db_pool and of setup() (checked under Spec).        *)
(* A store "with no stamped version" is one whose user_version reads 0,    *)
(* the value sqlite gives a store that was never stamped.                  *)
(***************************************************************************)
IsPrefix(s, t) == Len(s) <= Len(t) /\ SubSeq(t, 1, Len(s)) = s

Fresh == start_version = 0
Stale == start_version # 0 /\ start_version < SCHEMA_VERSION

\* C6: on a store with no stamped version and with no failing script, the
\* scripts run in the order of SCHEMAS, each once; the version is written
\* once, with SCHEMA_VERSION, and only after the last script; a later run on
\* the store an earlier run stamped executes no script.
C6_FreshBootstrap ==
    /\ (Fresh /\ failed_at = 0) => IsPrefix(executed, SCHEMAS)
    /\ (Fresh /\ failed_at = 0 /\ dbpc \in {"close", "pool", "returned"})
          => /\ executed = SCHEMAS
             /\ user_version = SCHEMA_VERSION
             /\ version_writes = 1
    /\ (Fresh /\ executed # SCHEMAS)
          => user_version = 0 /\ version_writes = 0
    /\ (stamped_run # 0 /\ run > stamped_run)
          => executed = <<>> /\ version_writes = 0

\* a second run has returned the pool on the store the first run stamped
C6_Witness ==
    /\ stamped_run = 1
    /\ run = 2
    /\ dbpc = "returned"
    /\ executed = <<>>
    /\ db_objects = {SCHEMAS[i] : i \in 1..Len(SCHEMAS)}

\* C7: on a store stamped with a version below SCHEMA_VERSION build_db_pool
\* raises at the check: no script is executed, the version is not written,
\* no pool is constructed, and the store is as it was.
C7_StaleAbort ==
    Stale =>
        /\ dbpc \in {"idle", "connect", "check", "raised"}
        /\ executed = <<>>
        /\ version_writes = 0
        /\ ~db_pool
        /\ user_version = start_version
        /\ db_objects = start_objects

\* build_db_pool has raised on a stale store
C7_Witness == Stale /\ dbpc = "raised" /\ pc = "aborted" /\ row = <<start_version>>

\* C8: whenever build_db_pool has returned a pool, the store's version is
\* SCHEMA_VERSION, whatever the version of the store was at the start.
C8_VersionAfterBootstrap ==
    dbpc = "returned" => user_version = SCHEMA_VERSION

\* C9: the listener is started only after build_db_pool has returned, and a
\* process that aborts on a stale store has never started a listener.
C9_BootstrapBeforeListen ==
    /\ listening => dbpc = "returned"
    /\ (Stale /\ pc = "aborted") => ~listening

\* C10: when the script of the k-th iteration fails, build_db_pool is left
\* by the exception: no later script is executed, the version is not
\* written (the store stays without a version) and no pool is constructed.
C10_ScriptFailureAborts ==
    failed_at # 0 =>
        /\ dbpc = "raised"
        /\ pc = "aborted"
        /\ Len(executed) <= failed_at
        /\ IsPrefix(executed, SCHEMAS)
        /\ user_version = 0
        /\ version_writes = 0
        /\ ~db_pool

\* a script in the middle of the list has failed after earlier ones ran
C10_Witness ==
    /\ failed_at = 3
    /\ executed = SubSeq(SCHEMAS, 1, 3)
    /\ dbpc = "raised"
    /\ {SCHEMAS[1], SCHEMAS[2]} \subseteq db_objects

Current == start_version = SCHEMA_VERSION

\* C11: on a store stamped with SCHEMA_VERSION build_db_pool executes no
\* script, does not write the version, leaves the store as it was, and goes
\* on to construct and return the pool (it neither enters the loop nor
\* raises).
C11_CurrentUntouched ==
    Current =>
        /\ dbpc \in {"idle", "connect", "check", "close", "pool", "returned"}
        /\ executed = <<>>
        /\ version_writes = 0
        /\ failed_at = 0
        /\ user_version = start_version
        /\ db_objects = start_objects
        /\ db_pool <=> dbpc = "returned"

\* build_db_pool has returned the pool on a store that was current from the
\* first start
C11_Witness ==
    /\ Current
    /\ run = 1
    /\ dbpc = "returned"
    /\ db_pool
    /\ row = <<SCHEMA_VERSION>>

(***************************************************************************)
(* Further properties of the mount loop (checked under SpecTree).          *)
(***************************************************************************)
\* the resources the tree serves: the root and whatever a path leads to
Reachable(ch) == ({root_resource} \cup {Resolve(ch, q) : q \in Paths}) \ {Absent}

\* C13: after each mount, for every resource reachable from the root and
\* every child name it lists, resource_mappings has the entry for (resource,
\* name) and the entry is the child attached under that name.
C13_MappingConsistent ==
    tpc \in {"loop", "returned"} =>
        \A n \in Reachable(children) :
            \A s \in listNames(children, n) :
                /\ _resource_id(n, s) \in DOMAIN resource_mappings
                /\ resource_mappings[_resource_id(n, s)] = children[<<n, s>>]

\* C16: a mount strictly below a path P whose handler (mounted earlier) the
\* tree holds walks through that handler: the step does not raise, P still
\* resolves to the same handler, and the new handler is reached from it by
\* the remaining segments.
C16_ShallowFirstReuse ==
    [][\A k \in 1..MaxDepth :
          LET path == NextMount.full_path
              P == SubSeq(path, 1, k)
              h == Resolve(children, P)
          IN  (/\ AtMount
               /\ k < Len(path)
               /\ IsHandler(h)
               /\ \E j \in 1..mounted :
                     /\ desired_tree[j].full_path = P
                     /\ desired_tree[j].resource = h)
              => /\ tpc' = "loop"
                 /\ Resolve(children', P) = h
                 /\ ChildAt(children', h, SubSeq(path, k + 1, Len(path)))
                      = NextMount.resource]_vars

\* C17: an empty list of mounts leaves the root without children; a mount
\* of a single segment creates no placeholder and is attached as a child of
\* the root; a mount of n segments creates at most n - 1 placeholders.
C17_EdgeCases ==
    [][/\ (tpc' = "returned" /\ desired_tree' = <<>>) => children' = EmptyDict
       /\ (AtMount /\ Len(NextMount.full_path) = 1)
            => /\ dummies' = dummies
               /\ tpc' = "loop"
               /\ <<root_resource, NextMount.full_path[1]>> \in DOMAIN children'
               /\ children'[<<root_resource, NextMount.full_path[1]>>]
                    = NextMount.resource
       /\ AtMount => dummies' - dummies <= Len(NextMount.full_path) - 1]_vars

(***************************************************************************)
(* Further properties of build_db_pool (checked under Spec).               *)
(***************************************************************************)
\* build_db_pool has taken one of the three ways out of its check
PastCheck == dbpc \notin {"idle", "connect", "check"}

\* the loop over SCHEMAS was entered: it is running, it was left by a
\* failing script, or it ended and the version was written
TookScripts ==
    \/ dbpc = "scripts"
    \/ failed_at # 0
    \/ (version_writes = 1 /\ executed = SCHEMAS /\ user_version = SCHEMA_VERSION)

\* the ValueError of the gate was raised
TookRaise == dbpc = "raised" /\ failed_at = 0

\* neither: straight to c.close() and the pool
TookPass ==
    /\ dbpc \in {"close", "pool", "returned"}
    /\ executed = <<>>
    /\ version_writes = 0
    /\ user_version = start_version
    /\ db_objects = start_objects

\* C14: past its check build_db_pool has run (or is running) the scripts
\* exactly when the stored version was 0, has raised the ValueError exactly
\* when it was non-zero and below SCHEMA_VERSION, and has otherwise (version
\* SCHEMA_VERSION or above) run and written nothing and gone on to the pool.
C14_GateClassification ==
    PastCheck =>
        /\ TookScripts <=> start_version = 0
        /\ TookRaise <=> (start_version # 0 /\ start_version < SCHEMA_VERSION)
        /\ TookPass <=> start_version >= SCHEMA_VERSION
        /\ TookRaise => (executed = <<>> /\ version_writes = 0 /\ ~db_pool)

\* a store stamped above SCHEMA_VERSION has been given its pool
C14_Witness ==
    /\ start_version > SCHEMA_VERSION
    /\ dbpc = "returned"
    /\ db_pool
    /\ user_version = start_version

(***************************************************************************)
(* The tree and the listener in setup() (checked under Spec).              *)
(***************************************************************************)
\* C18: when the listener is started create_resource_tree has returned with
\* every mount of desired_tree processed, and from its return on no step of
\* the same process changes a child anywhere in the tree.
C18_TreeCompleteThenFrozen ==
    [][/\ listening' =>
            /\ tpc' = "returned"
            /\ mounted' = Len(desired_tree')
            /\ desired_tree' = DesiredTree(config'.webclient)
       /\ (tpc = "returned" /\ run' = run) =>
            /\ tpc' = "returned"
            /\ children' = children
            /\ desired_tree' = desired_tree]_vars

\* the process serves the finished tree: all four mounts resolve, the web
\* client having taken the place of the placeholder above the client API
C18_Witness ==
    /\ pc = "running"
    /\ listening
    /\ tpc = "returned"
    /\ config.webclient
    /\ Resolve(children, WEB_CLIENT_PREFIX) = Handler(4)
    /\ Resolve(children, CLIENT_PREFIX) = Handler(1)
    /\ Resolve(children, FEDERATION_PREFIX) = Handler(2)
    /\ Resolve(children, CONTENT_REPO_PREFIX) = Handler(3)

(***************************************************************************)
(* Restarting after a failed script (checked under SpecRetry).             *)
(***************************************************************************)
\* C15: a run in which a script failed never writes the version, so the
\* store stays without one; the next start begins build_db_pool anew, takes
\* the scripts branch again and executes SCHEMAS from its first entry in
\* order; and once script failures have stopped, a store that started
\* without a version is eventually stamped with SCHEMA_VERSION by a run
\* without a failure, which returns the pool.
C15_RetryFromScratch ==
    /\ [][failed_at' # 0 =>
            /\ user_version' = 0
            /\ version_writes' = 0
            /\ stamped_run' # run']_vars
    /\ [][(failed_at # 0 /\ run' = run + 1) =>
            /\ start_version' = 0
            /\ dbpc' = "idle"
            /\ scripts_done' = 0
            /\ executed' = <<>>]_vars
    /\ []((run > 1 /\ Fresh /\ PastCheck) =>
            /\ TookScripts
            /\ IsPrefix(executed, SCHEMAS)
            /\ (failed_at = 0 => Len(executed) = scripts_done))
    /\ (Fresh /\ run = 1 /\ pc = "load_config")
         ~> (/\ user_version = SCHEMA_VERSION
             /\ stamped_run = run
             /\ failed_at = 0
             /\ executed = SCHEMAS
             /\ db_pool)

\* the third run, after two failed ones, has applied every script again over
\* the objects the failed runs left, stamped the version and returned the pool
C15_Witness ==
    /\ run = 3
    /\ Fresh
    /\ start_objects # {}
    /\ stamped_run = 3
    /\ executed = SCHEMAS
    /\ dbpc = "returned"

(***************************************************************************)
(* The pool under load (checked under Spec).                               *)
(***************************************************************************)
\* the operations issued that no thread has taken yet
Waiting == {pool_queue[i] : i \in 1..Len(pool_queue)}

\* C12: the pool never holds more than one open connection and never runs
\* more than one operation at a time, however many operations are issued;
\* an operation issued while the connection is busy joins the queue behind
\* the ones already waiting and no connection is opened for it.
C12_SingleConnection ==
    /\ [](Cardinality(pool_conns) <= 1 /\ Cardinality(Busy) <= 1)
    /\ [][(Busy # {} /\ ops_issued' = ops_issued + 1) =>
            /\ pool_conns' = pool_conns
            /\ pool_workers' = pool_workers
            /\ pool_queue' = Append(pool_queue, ops_issued')]_vars

\* two operations wait while the one connection runs a third
C12_Witness ==
    /\ Cardinality(pool_conns) = 1
    /\ Cardinality(Busy) = 1
    /\ Len(pool_queue) = 2
    /\ ops_issued = 3
=============================================================================
